---- MODULE Spec2Model ----
(***************************************************************************)
(* WebWeaver Studio: the lifecycle state controller                        *)
(* (StudioStateController) and the recording session engine                *)
(* (RecordingSession), modelled from the C++ sources.                      *)
(***************************************************************************)
EXTENDS Integers, Sequences, FiniteSets, TLC

(***************************************************************************)
(* Bounds of the model.                                                    *)
(***************************************************************************)
\* Number of most recent intents kept in the intent history.
MaxHist == 4
\* Largest value of the clocks (seconds of the wall clock).
MaxClock == 1
\* Largest number of events appended to one recording.
MaxEvents == 2
\* Largest number of recordings the session begins.
MaxStarts == 2

\* Number of distinct solution paths.
MaxPaths == 11
\* Largest number of AddSolution calls made on a list that started empty, and
\* of those that name a path already in the list.
MaxAdds == 12

MaxReAdds == 1
\* Largest number of calls on a store whose file is loaded and rewritten.
MaxStoreCalls == 4
\* Largest number of events the frame handles in one run of the program.
MaxFrameEvents == 5

(***************************************************************************)
(* enum class StudioState.  The controller source spells the first two     *)
(* NoProject and ProjectLoaded; the hosting frame and the specification    *)
(* call the same enumerators NoSolution and SolutionLoaded.                *)
(***************************************************************************)
NoProject == "NoProject"
ProjectLoaded == "ProjectLoaded"
RecordingRunning == "RecordingRunning"
RecordingPaused == "RecordingPaused"
Inspecting == "Inspecting"

StudioState ==
    {NoProject, ProjectLoaded, RecordingRunning, RecordingPaused, Inspecting}

VARIABLES
    state_,          \* StudioStateController::state_
    onStateChanged_, \* TRUE iff the std::function passed to the constructor is non-empty
    observer,        \* calls the observer received during the latest intent
    hist             \* history: the latest MaxHist intents with their effect

ctlVars == <<state_, onStateChanged_, observer, hist>>

VARIABLES
    active_,         \* RecordingSession::active_
    filePath_,       \* RecordingSession::filePath_
    recordingJson_,  \* RecordingSession::recordingJson_
    nextIndex_,      \* RecordingSession::nextIndex_
    startTime_,      \* RecordingSession::startTime_
    files,           \* the recordings directory: path -> document stored there
    clock,           \* the time, read by system_clock and steady_clock
    last,            \* history: the latest call of the session and what it returned
    appended,        \* history: AppendEvent calls accepted since the latest successful Start
    started,         \* history: Start calls that got as far as choosing a file path
    uuidOut,         \* history: the value GenerateUuidV4 returned last
    earlierIds       \* history: the ids of the recordings begun successfully so far

sessVars == <<active_, filePath_, recordingJson_, nextIndex_, startTime_>>

envVars == <<files, clock>>

idVars == <<uuidOut, earlierIds>>

histVars == <<last, appended, started, idVars>>

VARIABLES
    recent_,        \* RecentSolutionsManager::recent_, most recent first
    storageFile,    \* the content of the file at GetStoragePath()
    rlast,          \* history: the latest call on the store and its outcome
    addLog,         \* history: the paths added since the list was last empty
    fromEmpty,      \* history: the list was built by AddSolution alone
    readds,         \* history: number of AddSolution calls of a listed path
    calls           \* history: number of calls made on the store

storeVars == <<recent_, storageFile, rlast, addLog, fromEmpty, readds, calls>>

VARIABLES
    solution,       \* the descriptor handed to ToJson, if any
    rawJSON,        \* the JSON value handed to FromJson
    loadResult,     \* the SolutionLoadResult of the latest FromJson
    jlast           \* history: the latest step on the solution JSON

solVars == <<solution, rawJSON, loadResult, jlast>>

VARIABLES
    fs,             \* the filesystem: what is found at each path
    dlast           \* history: the latest step on the directories

dirVars == <<fs, dlast>>

VARIABLES
    recFiles,       \* what each name in the recordings directory holds
    recDirExists,   \* whether the recordings directory exists
    discovered,     \* the result of the latest DiscoverRecordingFiles
    signals,        \* the files that call reported to its caller as corrupt
    fromFile,       \* the result of the latest RecordingMetadata::FromFile
    mlast           \* history: the latest step on the recordings

recVars == <<recFiles, recDirExists, discovered, signals, fromFile, mlast>>

VARIABLES
    launchOptions,  \* the BrowserLaunchOptions value produced last
    olast           \* history: what produced it

launchVars == <<launchOptions, olast>>

VARIABLES
    currentSolution_,   \* StudioMainFrame::currentSolution_ (std::optional)
    recordingSession_,  \* StudioMainFrame::recordingSession_: null, or a session
                        \* and what its reference solution_ denotes
    inspectorShown,     \* whether the inspector pane is shown
    flast,              \* history: how the latest event of the frame ended
    handled             \* history: the number of events the frame handled

frameState == <<currentSolution_, recordingSession_, inspectorShown>>

frameVars == <<frameState, flast, handled>>

auxVars == <<storeVars, solVars, dirVars, recVars, launchVars, frameVars>>

vars == <<ctlVars, sessVars, envVars, histVars, auxVars>>

(***************************************************************************)
(* StudioStateController                                                   *)
(***************************************************************************)

\* A handler path that never reaches SetState.
NoStateChange ==
    /\ state_' = state_
    /\ observer' = <<>>

\* Faulty variant: the early return on an unchanged state is missing.
SetState_NoGuard(newState) ==
    /\ state_' = newState
    /\ observer' = IF onStateChanged_
                     THEN <<[arg |-> newState, seen |-> newState]>>
                     ELSE <<>>

\* void SetState(StudioState newState).  The callback runs after the
\* assignment, so a GetState() inside it sees the new state (field seen).
SetState(newState) ==
    IF state_ = newState
      THEN NoStateChange
      ELSE /\ state_' = newState
           /\ observer' = IF onStateChanged_
                            THEN <<[arg |-> state_', seen |-> state_']>>
                            ELSE <<>>

\* void OnProjectLoaded()  (declared as OnSolutionLoaded in the header).
OnProjectLoaded == SetState(ProjectLoaded)

\* void OnSolutionClosed(): declared in the header, its body is not part of
\* the sources; taken from the transition table of the specification.
OnSolutionClosed ==
    IF state_ = ProjectLoaded THEN SetState(NoProject) ELSE NoStateChange

\* Faulty variant: a paused recording cannot be stopped.
OnRecordStartStop_RunningOnly ==
    IF state_ = RecordingRunning
      THEN SetState(ProjectLoaded)
      ELSE IF state_ = ProjectLoaded
             THEN SetState(RecordingRunning)
             ELSE NoStateChange

\* void OnRecordStartStop()
OnRecordStartStop ==
    IF state_ = RecordingRunning \/ state_ = RecordingPaused
      THEN SetState(ProjectLoaded)
      ELSE IF state_ = ProjectLoaded
             THEN SetState(RecordingRunning)
             ELSE NoStateChange

\* Faulty variant: pause never resumes.
OnRecordPause_NoResume ==
    IF state_ = RecordingRunning
      THEN SetState(RecordingPaused)
      ELSE NoStateChange

\* void OnRecordPause()
OnRecordPause ==
    IF state_ = RecordingRunning
      THEN SetState(RecordingPaused)
      ELSE IF state_ = RecordingPaused
             THEN SetState(RecordingRunning)
             ELSE NoStateChange

\* void OnInspectorToggle(bool shown)
OnInspectorToggle(shown) ==
    IF shown THEN SetState(Inspecting) ELSE SetState(ProjectLoaded)

(***************************************************************************)
(* The intents as steps of the model: the handler, plus the history entry. *)
(***************************************************************************)
Push(h, e) == IF Len(h) < MaxHist THEN Append(h, e) ELSE Append(Tail(h), e)

Logged(intent, shown) ==
    /\ hist' = Push(hist, [intent |-> intent, shown |-> shown,
                           pre |-> state_, post |-> state_',
                           calls |-> observer'])
    /\ UNCHANGED <<onStateChanged_, sessVars, envVars, histVars, auxVars>>

SolutionLoadedIntent == OnProjectLoaded /\ Logged("SolutionLoaded", FALSE)

SolutionClosedIntent == OnSolutionClosed /\ Logged("SolutionClosed", FALSE)

RecordStartStopIntent == OnRecordStartStop /\ Logged("RecordStartStop", FALSE)

RecordPauseIntent == OnRecordPause /\ Logged("RecordPause", FALSE)

InspectorToggleIntent ==
    \E shown \in BOOLEAN :
        OnInspectorToggle(shown) /\ Logged("InspectorToggle", shown)

\* StudioStateController(StateChangedCallback cb); state_ = NoProject.
InitController ==
    /\ state_ = NoProject
    /\ onStateChanged_ \in BOOLEAN
    /\ observer = <<>>
    /\ hist = <<>>

NextController ==
    \/ SolutionLoadedIntent
    \/ SolutionClosedIntent
    \/ RecordStartStopIntent
    \/ RecordPauseIntent
    \/ InspectorToggleIntent

(***************************************************************************)
(* RecordingSession                                                        *)
(***************************************************************************)

\* The recording name passed to Start.
Names == {"Run1"}

\* Values GenerateUuidV4 may return (random).
Uuids == {"uuid-a", "uuid-b"}

\* Event types and payloads passed to AppendEvent.
InputTypes == {"DomClick"}
Payloads == {"#btn"}

\* The solution the session refers to (solution_).
SelectedBrowser == "chrome"
BaseUrl == "https://example.test"

Times == 0..MaxClock

\* recordingsDir / (name + "_" + NowUtcIso() + ".wwrec")
RecordingPath(name, stamp) == [name |-> name, stamp |-> stamp]

\* A default-constructed std::filesystem::path.
EmptyPath == [name |-> "", stamp |-> -1]

AllPaths == {RecordingPath(n, t) : n \in Names, t \in Times}

\* A default-constructed nlohmann::json.
JsonNull == [kind |-> "null"]

\* No file at a path.
NoFile == [kind |-> "absent"]

\* std::string EventTypeToString(RecordingEventType type)
EventTypeToString(type) ==
    CASE type = "NavGoto" -> "nav.goto"
      [] type = "DomClick" -> "dom.click"
      [] type = "Wait" -> "wait"
      [] OTHER -> "unknown"

\* Faulty variant: every recording gets the same fixed id.
InitialRecording_Placeholder(id, name, createdAt) ==
    [ id |-> "PLACEHOLDER", name |-> name, createdAt |-> createdAt,
      browser |-> SelectedBrowser, baseUrl |-> BaseUrl,
      steps |-> <<>> ]

\* The "recording" object Start builds: its array is stored under "steps".
InitialRecording(id, name, createdAt) ==
    [ id |-> id, name |-> name, createdAt |-> createdAt,
      browser |-> SelectedBrowser, baseUrl |-> BaseUrl,
      steps |-> <<>> ]

\* The document Start builds.
InitialDocument(id, name, createdAt) ==
    [ kind |-> "object", version |-> 1,
      recording |-> InitialRecording(id, name, createdAt) ]

HasEvents(doc) ==
    /\ doc.kind = "object"
    /\ "events" \in DOMAIN doc.recording

\* The events array of a document, the empty sequence when it has none.
EventsOf(doc) == IF HasEvents(doc) THEN doc.recording.events ELSE <<>>

\* recordingJson_["recording"]["events"].push_back(e): operator[] creates a
\* missing key with value null and push_back turns null into an array.
PushBackEvent(doc, e) ==
    IF HasEvents(doc)
      THEN [doc EXCEPT !.recording.events = Append(@, e)]
      ELSE [doc EXCEPT !.recording =
              [ id |-> @.id, name |-> @.name, createdAt |-> @.createdAt,
                browser |-> @.browser, baseUrl |-> @.baseUrl,
                steps |-> @.steps, events |-> <<e>> ]]

\* std::ofstream out(path, std::ios::trunc); if open, out << doc.dump(4).
WriteFile(openOk, path, doc) ==
    files' = IF openOk THEN [files EXCEPT ![path] = doc] ELSE files

\* Faulty variant: the file is written before the event is appended.
FlushToDisk_BeforeAppend(openOk) == WriteFile(openOk, filePath_, recordingJson_)

\* void FlushToDisk(): writes the document as it is after the append.
FlushToDisk(openOk) == WriteFile(openOk, filePath_, recordingJson_')

\* Start past its active_ check.  create_directories throws when the
\* directory cannot be created; NowUtcIso is read twice, for the file name
\* and for createdAt, and time may pass in between.
StartRecording(name) ==
    /\ started < MaxStarts
    /\ \E dirOk, openOk \in BOOLEAN, id \in Uuids,
          createdAt \in {t \in Times : t >= clock} :
         IF ~dirOk
           THEN /\ last' = [op |-> "Start", wasActive |-> active_, ret |-> "threw",
                            opened |-> FALSE]
                /\ UNCHANGED <<sessVars, envVars, appended, started, idVars>>
           ELSE /\ filePath_' = RecordingPath(name, clock)
                /\ recordingJson_' = InitialDocument(id, name, createdAt)
                /\ clock' = createdAt
                /\ started' = started + 1
                /\ uuidOut' = id
                /\ IF openOk
                     THEN /\ WriteFile(TRUE, filePath_', recordingJson_')
                          /\ active_' = TRUE
                          /\ nextIndex_' = 0
                          /\ startTime_' = clock'
                          /\ appended' = 0
                          /\ earlierIds' = earlierIds \cup {id}
                          /\ last' = [op |-> "Start", wasActive |-> active_,
                                      ret |-> "true", opened |-> TRUE]
                     ELSE /\ last' = [op |-> "Start", wasActive |-> active_,
                                      ret |-> "false", opened |-> FALSE]
                          /\ UNCHANGED <<active_, nextIndex_, startTime_, files,
                                         appended, earlierIds>>

\* Faulty variant: a second Start is accepted while a recording is active.
Start_NoActiveCheck(name) == StartRecording(name)

\* bool Start(const std::string& name)
Start(name) ==
    IF active_
      THEN /\ last' = [op |-> "Start", wasActive |-> TRUE, ret |-> "false",
                       opened |-> FALSE]
           /\ UNCHANGED <<sessVars, envVars, appended, started, idVars>>
      ELSE StartRecording(name)

\* Faulty variant: Stop returns when the file cannot be opened, as FlushToDisk does.
Stop_ReturnOnOpenFailure ==
    IF ~active_
      THEN /\ last' = [op |-> "Stop", wasActive |-> FALSE, ret |-> "void",
                       opened |-> FALSE]
           /\ UNCHANGED <<sessVars, envVars, appended, started, idVars>>
      ELSE \E openOk \in BOOLEAN :
             /\ last' = [op |-> "Stop", wasActive |-> TRUE, ret |-> "void",
                         opened |-> openOk]
             /\ WriteFile(openOk, filePath_, recordingJson_)
             /\ active_' = ~openOk
             /\ UNCHANGED <<filePath_, recordingJson_, nextIndex_, startTime_,
                            clock, appended, started, idVars>>

\* void Stop()
Stop ==
    IF ~active_
      THEN /\ last' = [op |-> "Stop", wasActive |-> FALSE, ret |-> "void",
                       opened |-> FALSE]
           /\ UNCHANGED <<sessVars, envVars, appended, started, idVars>>
      ELSE \E openOk \in BOOLEAN :
             /\ last' = [op |-> "Stop", wasActive |-> TRUE, ret |-> "void",
                         opened |-> openOk]
             /\ WriteFile(openOk, filePath_, recordingJson_)
             /\ active_' = FALSE
             /\ UNCHANGED <<filePath_, recordingJson_, nextIndex_, startTime_,
                            clock, appended, started, idVars>>

\* AppendEvent past its active_ check.
AppendToRecording(type, payload) ==
    \E openOk \in BOOLEAN :
        /\ nextIndex_ < MaxEvents
        /\ last' = [op |-> "AppendEvent", wasActive |-> active_, ret |-> "void",
                    opened |-> openOk]
        /\ recordingJson_' = PushBackEvent(recordingJson_,
              [ index |-> nextIndex_, timestamp |-> clock - startTime_,
                type |-> EventTypeToString(type), payload |-> payload ])
        /\ nextIndex_' = nextIndex_ + 1
        /\ FlushToDisk(openOk)
        /\ appended' = appended + 1
        /\ UNCHANGED <<active_, filePath_, startTime_, clock, started, idVars>>

\* Faulty variant: the index is taken before the session is checked for.
AppendEvent_IndexBeforeCheck(type, payload) ==
    IF ~active_
      THEN /\ last' = [op |-> "AppendEvent", wasActive |-> FALSE, ret |-> "void",
                       opened |-> FALSE]
           /\ nextIndex_ < MaxEvents
           /\ nextIndex_' = nextIndex_ + 1
           /\ UNCHANGED <<active_, filePath_, recordingJson_, startTime_,
                          envVars, appended, started, idVars>>
      ELSE AppendToRecording(type, payload)

\* void AppendEvent(RecordingEventType type, nlohmann::json payload)
AppendEvent(type, payload) ==
    IF ~active_
      THEN /\ last' = [op |-> "AppendEvent", wasActive |-> FALSE, ret |-> "void",
                       opened |-> FALSE]
           /\ UNCHANGED <<sessVars, envVars, appended, started, idVars>>
      ELSE AppendToRecording(type, payload)

(***************************************************************************)
(* The calls of the session as steps of the model, and the passing of time.*)
(***************************************************************************)
StartCall ==
    \E name \in Names : Start(name) /\ UNCHANGED <<ctlVars, auxVars>>

StopCall == Stop /\ UNCHANGED <<ctlVars, auxVars>>

AppendEventCall ==
    \E type \in InputTypes, payload \in Payloads :
        AppendEvent(type, payload) /\ UNCHANGED <<ctlVars, auxVars>>

Tick ==
    /\ clock < MaxClock
    /\ clock' = clock + 1
    /\ last' = [op |-> "Tick", wasActive |-> active_, ret |-> "void",
                opened |-> FALSE]
    /\ UNCHANGED <<ctlVars, sessVars, files, appended, started, idVars,
                   auxVars>>

\* RecordingSession(const StudioSolution& solution), with an empty
\* recordings directory.
InitSession ==
    /\ active_ = FALSE
    /\ filePath_ = EmptyPath
    /\ recordingJson_ = JsonNull
    /\ nextIndex_ = 0
    /\ startTime_ = 0
    /\ files = [p \in AllPaths |-> NoFile]
    /\ clock = 0
    /\ last = [op |-> "new", wasActive |-> FALSE, ret |-> "void",
               opened |-> FALSE]
    /\ appended = 0
    /\ started = 0
    /\ uuidOut = "none"
    /\ earlierIds = {}

NextSession ==
    \/ StartCall
    \/ StopCall
    \/ AppendEventCall
    \/ Tick

(***************************************************************************)
(* RecentSolutionsManager: the list of recently opened solutions and its   *)
(* file in the user's configuration directory.                             *)
(***************************************************************************)
\* static constexpr size_t kMaxRecent = 10;
kMaxRecent == 10

\* Solution paths are numbered in the order of their first use; 0 stands
\* for a JSON element that is not a string.
Paths == 1..MaxPaths

NotAString == 0

Range(q) == {q[i] : i \in 1..Len(q)}

\* The contents the storage file can have: no file, text that is not JSON,
\* or a JSON document.
AbsentFile == [kind |-> "absent"]

UnparsableFile == [kind |-> "unparsable"]

TopLevelArray == [kind |-> "array"]

ObjectWithoutList == [kind |-> "object", version |-> 1, hasList |-> FALSE,
                      recentSolutions |-> [t |-> "null"]]

ObjectWith(v) == [kind |-> "object", version |-> 1, hasList |-> TRUE,
                  recentSolutions |-> v]

JsonArray(items) == [t |-> "array", items |-> items]

JsonString(p) == [t |-> "string", s |-> p]

JsonNumber == [t |-> "number"]

JsonNullValue == [t |-> "null"]

\* What an editor or another program can leave in the storage file.
ForeignContents ==
    { AbsentFile, UnparsableFile, TopLevelArray, ObjectWithoutList,
      ObjectWith(JsonNullValue), ObjectWith(JsonNumber),
      ObjectWith(JsonString(1)),
      ObjectWith(JsonArray(<<>>)),
      ObjectWith(JsonArray(<<2, 1>>)),
      ObjectWith(JsonArray(<<1, 1>>)),
      ObjectWith(JsonArray(<<1, NotAString, 2>>)),
      ObjectWith(JsonArray([i \in 1..(kMaxRecent + 1) |-> i])) }

\* j.contains("recentSolutions"): true only for an object holding the key.
Contains(j) == j.kind = "object" /\ j.hasList

\* The elements the range-for of Load visits in j["recentSolutions"]: the
\* elements of an array, nothing for null, the value itself for a scalar.
Entries(v) ==
    IF v.t = "array" THEN v.items
    ELSE IF v.t = "null" THEN <<>>
    ELSE IF v.t = "string" THEN <<v.s>>
    ELSE <<NotAString>>

\* The index of the first element whose get<std::string>() throws, or 0.
FirstNonString(es) ==
    IF \E i \in 1..Len(es) : es[i] = NotAString
      THEN CHOOSE i \in 1..Len(es) :
               /\ es[i] = NotAString
               /\ \A k \in 1..(i - 1) : es[k] # NotAString
      ELSE 0

\* The document Save builds: "recentSolutions" exists only once a path was
\* pushed into it.
SavedDocument(list) ==
    IF list = <<>> THEN ObjectWithoutList ELSE ObjectWith(JsonArray(list))

\* void Load(): clears the list, then reads the file.  The stream extraction
\* and get<std::string>() throw on text that is not JSON and on an element
\* that is not a string.
Load ==
    \E openOk \in BOOLEAN :
        /\ IF storageFile.kind = "absent" \/ ~openOk
             THEN /\ recent_' = <<>>
                  /\ rlast' = [op |-> "Load", ret |-> "void",
                               file |-> AbsentFile]
             ELSE IF storageFile.kind = "unparsable"
             THEN /\ recent_' = <<>>
                  /\ rlast' = [op |-> "Load", ret |-> "threw",
                               file |-> storageFile]
             ELSE IF ~Contains(storageFile)
             THEN /\ recent_' = <<>>
                  /\ rlast' = [op |-> "Load", ret |-> "void",
                               file |-> storageFile]
             ELSE LET es == Entries(storageFile.recentSolutions)
                      bad == FirstNonString(es)
                  IN  /\ recent_' = IF bad = 0 THEN es
                                    ELSE SubSeq(es, 1, bad - 1)
                      /\ rlast' = [op |-> "Load",
                                   ret |-> IF bad = 0 THEN "void"
                                           ELSE "threw",
                                   file |-> storageFile]
        /\ addLog' = <<>>
        /\ fromEmpty' = (recent_' = <<>>)
        /\ readds' = 0
        /\ calls' = calls + 1
        /\ UNCHANGED storageFile

\* The file after Save: create_directories throws when the directory cannot
\* be made; a stream that did not open writes nothing.
SaveFile(list, dirOk, openOk) ==
    storageFile' = IF dirOk /\ openOk THEN SavedDocument(list)
                   ELSE storageFile

\* void Save() const
Save ==
    \E dirOk, openOk \in BOOLEAN :
        /\ SaveFile(recent_, dirOk, openOk)
        /\ rlast' = [op |-> "Save", ret |-> IF dirOk THEN "void" ELSE "threw",
                     file |-> storageFile']
        /\ calls' = calls + 1
        /\ UNCHANGED <<recent_, addLog, fromEmpty, readds>>

\* The list after find/erase of the first occurrence of path.
EraseFirst(list, path) ==
    IF path \in Range(list)
      THEN LET i == CHOOSE k \in 1..Len(list) :
                        /\ list[k] = path
                        /\ \A m \in 1..(k - 1) : list[m] # path
           IN  SubSeq(list, 1, i - 1) \o SubSeq(list, i + 1, Len(list))
      ELSE list

\* recent_.resize(kMaxRecent) when the list is longer.
Truncate(list) ==
    IF Len(list) > kMaxRecent THEN SubSeq(list, 1, kMaxRecent) ELSE list

\* Faulty variant: the new path is put at the back of the list.
Inserted_AtBack(list, path) == Truncate(EraseFirst(list, path) \o <<path>>)

\* The list AddSolution leaves: erase, insert at the front, truncate.
Inserted(list, path) == Truncate(<<path>> \o EraseFirst(list, path))

\* The paths a call of AddSolution is given: the first, the second or the
\* last path of the list, or the first path that is not in the list.
Unused == Paths \ Range(recent_)

Listed ==
    {recent_[i] : i \in {1, 2, Len(recent_)} \cap (1..Len(recent_))}

AddInputs ==
    {p \in Listed \cap Paths : readds < MaxReAdds}
        \cup {p \in Unused : \A q \in Unused : p <= q}

\* void AddSolution(const std::filesystem::path& path)
AddSolution(path) ==
    \E dirOk, openOk \in BOOLEAN :
        /\ recent_' = Inserted(recent_, path)
        /\ SaveFile(recent_', dirOk, openOk)
        /\ rlast' = [op |-> "AddSolution",
                     ret |-> IF dirOk THEN "void" ELSE "threw",
                     file |-> storageFile']
        /\ addLog' = Append(addLog, path)
        /\ readds' = IF path \in Range(recent_) THEN readds + 1 ELSE readds
        /\ calls' = calls + 1
        /\ UNCHANGED fromEmpty

\* Another program rewrites or removes the storage file.
ForeignWrite ==
    /\ \E c \in ForeignContents : storageFile' = c
    /\ rlast' = [op |-> "ForeignWrite", ret |-> "void", file |-> storageFile']
    /\ UNCHANGED <<recent_, addLog, fromEmpty, readds, calls>>

LoadCall ==
    /\ calls < MaxStoreCalls
    /\ Load
    /\ UNCHANGED <<ctlVars, sessVars, envVars, histVars, solVars, dirVars,
                   recVars, launchVars, frameVars>>

SaveCall ==
    /\ calls < MaxStoreCalls
    /\ Save
    /\ UNCHANGED <<ctlVars, sessVars, envVars, histVars, solVars, dirVars,
                   recVars, launchVars, frameVars>>

AddSolutionCall ==
    /\ calls < MaxStoreCalls
    /\ \E path \in AddInputs : AddSolution(path)
    /\ UNCHANGED <<ctlVars, sessVars, envVars, histVars, solVars, dirVars,
                   recVars, launchVars, frameVars>>

ForeignWriteStep ==
    /\ calls < MaxStoreCalls
    /\ ForeignWrite
    /\ UNCHANGED <<ctlVars, sessVars, envVars, histVars, solVars, dirVars,
                   recVars, launchVars, frameVars>>

\* AddSolution on a manager that was never loaded.
AddSolutionFromEmpty ==
    /\ Len(addLog) < MaxAdds
    /\ \E path \in AddInputs : AddSolution(path)
    /\ UNCHANGED <<ctlVars, sessVars, envVars, histVars, solVars, dirVars,
                   recVars, launchVars, frameVars>>

\* A new manager, before its first Load, with no storage file.
InitStore ==
    /\ recent_ = <<>>
    /\ storageFile = AbsentFile
    /\ rlast = [op |-> "new", ret |-> "void", file |-> AbsentFile]
    /\ addLog = <<>>
    /\ fromEmpty = TRUE
    /\ readds = 0
    /\ calls = 0

NextStore ==
    \/ LoadCall
    \/ SaveCall
    \/ AddSolutionCall
    \/ ForeignWriteStep

NextAdds == AddSolutionFromEmpty

(***************************************************************************)
(* StudioSolution: the descriptor of a solution, its JSON form, and the    *)
(* browser launch options the creation wizard adds to it.                  *)
(***************************************************************************)
\* std::optional
NoValue == [has |-> FALSE]

Some(v) == [has |-> TRUE, v |-> v]

\* struct BrowserLaunchOptions with its default member initialisers.
DefaultLaunchOptions ==
    [ privateMode |-> TRUE, disableExtensions |-> TRUE,
      disableNotifications |-> TRUE, ignoreCertificateErrors |-> FALSE,
      userAgent |-> NoValue, windowSize |-> NoValue, maximised |-> FALSE ]

\* The launch options a descriptor is built with.
LaunchOptionValues ==
    { DefaultLaunchOptions,
      [DefaultLaunchOptions EXCEPT !.privateMode = FALSE],
      [DefaultLaunchOptions EXCEPT !.maximised = TRUE],
      [DefaultLaunchOptions EXCEPT
          !.windowSize = Some([width |-> 800, height |-> 600])] }

SolutionNames == {"Demo", "Other"}

SolutionDirectories == {"/tmp/x"}

BaseUrls == {"https://example.test"}

Browsers == {"chrome", "firefox"}

\* The valid descriptors: StudioSolution as the frame constructs it.
Descriptors ==
    [ solutionName : SolutionNames,
      solutionDirectory : SolutionDirectories,
      createDirectoryForSolution : BOOLEAN,
      baseUrl : BaseUrls,
      selectedBrowser : Browsers,
      browserLaunchOptions : LaunchOptionValues ]

\* JSON values: a key that is absent, and values with their JSON type.
Missing == [t |-> "missing"]

JString(v) == [t |-> "string", v |-> v]

JBool(v) == [t |-> "boolean", v |-> v]

JInteger(v) == [t |-> "integer", v |-> v]

JFloat == [t |-> "float"]

JObject(v) == [t |-> "object", v |-> v]

\* A JSON document as FromJson sees it: whether it is an object, and the
\* values under "version" and "solution".
Document(version, sol) ==
    [isObject |-> TRUE, version |-> version, solution |-> sol]

NotAnObject == [isObject |-> FALSE, version |-> Missing, solution |-> Missing]

\* constexpr int JSON_VERSION = 1;
JSON_VERSION == 1

\* nlohmann::json StudioSolution::ToJson() const
ToJson(d) ==
    Document(JInteger(JSON_VERSION),
             JObject([ solutionName |-> JString(d.solutionName),
                       solutionDirectory |-> JString(d.solutionDirectory),
                       solutionDirectoryCreated |->
                           JBool(d.createDirectoryForSolution),
                       baseUrl |-> JString(d.baseUrl),
                       browser |-> JString(d.selectedBrowser) ]))

\* struct SolutionLoadResult, and an exception that leaves FromJson.
LoadError(error) == [solution |-> NoValue, error |-> error, threw |-> FALSE]

Loaded(d) == [solution |-> Some(d), error |-> "None", threw |-> FALSE]

Thrown == [solution |-> NoValue, error |-> "None", threw |-> TRUE]

RequiredFields ==
    {"solutionName", "solutionDirectory", "solutionDirectoryCreated",
     "baseUrl", "browser"}

\* The JSON type get<T>() needs for each required field.
FieldType(f) == IF f = "solutionDirectoryCreated" THEN "boolean" ELSE "string"

\* The descriptor FromJson constructs.  The document holds no launch
\* options, so the descriptor has the default-constructed ones.
Constructed(s) ==
    [ solutionName |-> s.solutionName.v,
      solutionDirectory |-> s.solutionDirectory.v,
      createDirectoryForSolution |-> s.solutionDirectoryCreated.v,
      baseUrl |-> s.baseUrl.v,
      selectedBrowser |-> s.browser.v,
      browserLaunchOptions |-> DefaultLaunchOptions ]

\* static SolutionLoadResult StudioSolution::FromJson(const json& rawJSON)
FromJson(j) ==
    IF ~j.isObject THEN LoadError("FileMalformed")
    ELSE IF j.version.t = "missing" THEN LoadError("MissingVersion")
    ELSE IF j.version.t # "integer" THEN LoadError("FileMalformed")
    ELSE IF j.version.v # 1 THEN LoadError("UnsupportedVersion")
    ELSE IF j.solution.t # "object" THEN LoadError("MissingSolutionObject")
    ELSE IF \E f \in RequiredFields : j.solution.v[f].t = "missing"
      THEN LoadError("MissingRequiredField")
    ELSE IF \E f \in RequiredFields : j.solution.v[f].t # FieldType(f)
      THEN Thrown
    ELSE Loaded(Constructed(j.solution.v))

\* The JSON values a solution file can hold.
VersionValues == {Missing, JString("1"), JFloat, JInteger(1), JInteger(2)}

StringFieldValues(vals) == {Missing, JInteger(5)} \cup {JString(v) : v \in vals}

PresentOrNot(vals) == {Missing} \cup {JString(v) : v \in vals}

BoolFieldValues == {Missing, JString("yes"), JBool(TRUE), JBool(FALSE)}

SolutionObjects ==
    [ solutionName : StringFieldValues({"Demo"}),
      solutionDirectory : PresentOrNot(SolutionDirectories),
      solutionDirectoryCreated : BoolFieldValues,
      baseUrl : StringFieldValues(BaseUrls),
      browser : PresentOrNot({"chrome"}) ]

SolutionValues == {Missing, JString("x")} \cup {JObject(o) : o \in SolutionObjects}

JsonInputs ==
    {NotAnObject} \cup {Document(v, o) : v \in VersionValues, o \in SolutionValues}

\* The frame serialises the current solution (SaveSolutionToDisk).
ToJsonStep ==
    /\ \E d \in Descriptors :
           /\ solution' = Some(d)
           /\ rawJSON' = ToJson(d)
    /\ loadResult' = LoadError("None")
    /\ jlast' = "ToJson"
    /\ UNCHANGED <<ctlVars, sessVars, envVars, histVars, storeVars, dirVars,
                   recVars, launchVars, frameVars>>

\* The frame parses a solution file written by anyone.
ReadJsonStep ==
    /\ \E j \in JsonInputs : rawJSON' = j
    /\ solution' = NoValue
    /\ loadResult' = LoadError("None")
    /\ jlast' = "Read"
    /\ UNCHANGED <<ctlVars, sessVars, envVars, histVars, storeVars, dirVars,
                   recVars, launchVars, frameVars>>

\* The frame hands the JSON to FromJson.
FromJsonStep ==
    /\ jlast # "FromJson"
    /\ loadResult' = FromJson(rawJSON)
    /\ jlast' = "FromJson"
    /\ UNCHANGED <<solution, rawJSON>>
    /\ UNCHANGED <<ctlVars, sessVars, envVars, histVars, storeVars, dirVars,
                   recVars, launchVars, frameVars>>

InitSolution ==
    /\ solution = NoValue
    /\ rawJSON = NotAnObject
    /\ loadResult = LoadError("None")
    /\ jlast = "new"

NextSolution ==
    \/ ToJsonStep
    \/ ReadJsonStep
    \/ FromJsonStep

(***************************************************************************)
(* StudioSolution: the directories of a solution on disk.                  *)
(***************************************************************************)
PAGES_DIRECTORY == "pages"

SCRIPTS_DIRECTORY == "scripts"

RECORDINGS_DIRECTORY == "recordings"

\* The descriptors whose directories are made: one name, with and without
\* a directory of its own.
DirDescriptors ==
    {d \in Descriptors : /\ d.solutionName = "Demo"
                         /\ d.selectedBrowser = "chrome"
                         /\ d.browserLaunchOptions = DefaultLaunchOptions}

\* std::filesystem::path GetSolutionDirectory() const; a path is the
\* sequence of its components.
GetSolutionDirectory(d) ==
    IF d.createDirectoryForSolution
      THEN <<d.solutionDirectory, d.solutionName>>
      ELSE <<d.solutionDirectory>>

GetPagesDirectory(d) == Append(GetSolutionDirectory(d), PAGES_DIRECTORY)

GetScriptsDirectory(d) == Append(GetSolutionDirectory(d), SCRIPTS_DIRECTORY)

GetRecordingsDirectory(d) ==
    Append(GetSolutionDirectory(d), RECORDINGS_DIRECTORY)

\* The four directories of a solution.
Layout(d) ==
    { GetSolutionDirectory(d), GetPagesDirectory(d), GetScriptsDirectory(d),
      GetRecordingsDirectory(d) }

\* A recording kept in the recordings directory.
OldRecording(d) == Append(GetRecordingsDirectory(d), "old.wwrec")

FilePaths == {OldRecording(d) : d \in DirDescriptors}

FsPaths == UNION {Layout(d) : d \in DirDescriptors} \cup FilePaths

Parent(path) == SubSeq(path, 1, Len(path) - 1)

Prefix(path, k) == SubSeq(path, 1, k)

\* Faulty variant: a directory that already exists is reported as an error.
CreateDirectories_FailIfExists(f, path, canCreate) ==
    IF f[path] = "absent" /\ canCreate
         /\ \A k \in 1..Len(path) : f[Prefix(path, k)] # "file"
      THEN [ fs |-> [q \in FsPaths |->
                        IF \E k \in 1..Len(path) : q = Prefix(path, k)
                          THEN "dir" ELSE f[q]],
             ec |-> FALSE ]
      ELSE [fs |-> f, ec |-> TRUE]

\* std::filesystem::create_directories(path, ec): nothing to do when path
\* is a directory; an error when a component is not a directory or one
\* cannot be created; otherwise every missing component is created.
CreateDirectories(f, path, canCreate) ==
    IF \A k \in 1..Len(path) : f[Prefix(path, k)] = "dir"
      THEN [fs |-> f, ec |-> FALSE]
    ELSE IF \E k \in 1..Len(path) : f[Prefix(path, k)] = "file"
      THEN [fs |-> f, ec |-> TRUE]
    ELSE IF ~canCreate
      THEN [fs |-> f, ec |-> TRUE]
    ELSE [ fs |-> [q \in FsPaths |->
                      IF \E k \in 1..Len(path) : q = Prefix(path, k)
                        THEN "dir" ELSE f[q]],
           ec |-> FALSE ]

\* Faulty variant: every directory is attempted and the last failure is
\* the one reported.
EnsureDirectoryStructure_ReportLast(f, d, canCreate) ==
    LET root == CreateDirectories(f, GetSolutionDirectory(d), canCreate[1])
        pages == CreateDirectories(root.fs, GetPagesDirectory(d),
                                   canCreate[2])
        scripts == CreateDirectories(pages.fs, GetScriptsDirectory(d),
                                     canCreate[3])
        recordings == CreateDirectories(scripts.fs, GetRecordingsDirectory(d),
                                        canCreate[4])
    IN  [ fs |-> recordings.fs,
          status |-> IF recordings.ec THEN "CannotCreateRecordings"
                     ELSE IF scripts.ec THEN "CannotCreateScripts"
                     ELSE IF pages.ec THEN "CannotCreatePages"
                     ELSE IF root.ec THEN "CannotCreateRoot"
                     ELSE "None" ]

\* SolutionDirectoryCreateStatus EnsureDirectoryStructure() const, with the
\* filesystem it leaves.  canCreate[i] tells whether the i-th call of
\* create_directories is able to create a directory.
EnsureDirectoryStructure(f, d, canCreate) ==
    LET root == CreateDirectories(f, GetSolutionDirectory(d), canCreate[1])
        pages == CreateDirectories(root.fs, GetPagesDirectory(d),
                                   canCreate[2])
        scripts == CreateDirectories(pages.fs, GetScriptsDirectory(d),
                                     canCreate[3])
        recordings == CreateDirectories(scripts.fs, GetRecordingsDirectory(d),
                                        canCreate[4])
    IN  IF root.ec THEN [fs |-> root.fs, status |-> "CannotCreateRoot"]
        ELSE IF pages.ec
          THEN [fs |-> pages.fs, status |-> "CannotCreatePages"]
        ELSE IF scripts.ec
          THEN [fs |-> scripts.fs, status |-> "CannotCreateScripts"]
        ELSE IF recordings.ec
          THEN [fs |-> recordings.fs, status |-> "CannotCreateRecordings"]
        ELSE [fs |-> recordings.fs, status |-> "None"]

\* A call of EnsureDirectoryStructure on a descriptor.
EnsureCall ==
    /\ \E d \in DirDescriptors, canCreate \in [1..4 -> BOOLEAN] :
           LET r == EnsureDirectoryStructure(fs, d, canCreate)
           IN  /\ fs' = r.fs
               /\ dlast' = [ op |-> "Ensure", d |-> Some(d),
                             status |-> r.status,
                             again |-> /\ dlast.op = "Ensure"
                                       /\ dlast.d = Some(d)
                                       /\ dlast.status = "None" ]
    /\ UNCHANGED <<ctlVars, sessVars, envVars, histVars, storeVars, solVars,
                   recVars, launchVars, frameVars>>

HasChild(f, path) ==
    \E q \in FsPaths : Len(q) = Len(path) + 1 /\ Parent(q) = path
                         /\ f[q] # "absent"

\* Another program makes or removes a directory or a file.
ForeignChange ==
    /\ \E path \in FsPaths, kind \in {"absent", "dir", "file"} :
           /\ IF kind = "absent"
                THEN fs[path] # "absent" /\ ~HasChild(fs, path)
                ELSE /\ fs[path] = "absent"
                     /\ IF Len(path) = 1 THEN TRUE
                        ELSE fs[Parent(path)] = "dir"
                     /\ path \in FilePaths => kind = "file"
           /\ fs' = [fs EXCEPT ![path] = kind]
    /\ dlast' = [op |-> "Foreign", d |-> NoValue, status |-> "None",
                 again |-> FALSE]
    /\ UNCHANGED <<ctlVars, sessVars, envVars, histVars, storeVars, solVars,
                   recVars, launchVars, frameVars>>

\* An empty disk.
InitDirs ==
    /\ fs = [path \in FsPaths |-> "absent"]
    /\ dlast = [op |-> "new", d |-> NoValue, status |-> "None",
                again |-> FALSE]

NextDirs ==
    \/ EnsureCall
    \/ ForeignChange

(***************************************************************************)
(* Recording files: discovery of the recordings directory, and             *)
(* RecordingMetadata::FromFile.                                            *)
(***************************************************************************)
\* The names found in the recordings directory.
RecFileNames == {"a.wwrec", "b.wwrec", "notes.txt"}

\* entry.path().extension()
Extension(name) == IF name = "notes.txt" THEN ".txt" ELSE ".wwrec"

\* What a name can hold: nothing, a directory, text that is not JSON, or a
\* JSON document with whatever is under "recording".
NoSuchFile == [kind |-> "absent"]

Directory == [kind |-> "directory"]

Unparsable == [kind |-> "unparsable"]

RecDocument(rec) == [kind |-> "json", isObject |-> TRUE, recording |-> rec]

NonObjectDocument ==
    [kind |-> "json", isObject |-> FALSE, recording |-> Missing]

RecordingObjects ==
    [ id : {Missing, JString("uuid-a"), JInteger(5)},
      name : {Missing, JString("Run1"), JInteger(5)},
      createdAt : {Missing, JString("2026-01-01T00:00:00Z")} ]

\* A file as RecordingSession writes it.
WellFormedRecording ==
    RecDocument(JObject([ id |-> JString("uuid-a"), name |-> JString("Run1"),
                          createdAt |-> JString("2026-01-01T00:00:00Z") ]))

RecFileContents ==
    { NoSuchFile, Directory, Unparsable, NonObjectDocument,
      RecDocument(Missing), RecDocument(JString("x")) }
        \cup {RecDocument(JObject(r)) : r \in RecordingObjects}

\* The contents each name takes.
ContentsOf(name) ==
    IF Extension(name) = ".wwrec" THEN RecFileContents
    ELSE {NoSuchFile, WellFormedRecording}

\* struct RecordingMetadata
Metadata(id, name, file, createdAt) ==
    [id |-> id, name |-> name, filePath |-> file, createdAt |-> createdAt]

\* json.contains("recording") && json["recording"].is_object()
HasRecordingObject(c) == c.isObject /\ c.recording.t = "object"

\* std::optional<RecordingMetadata> LoadRecordingMetadata(file): the parse
\* is inside try/catch; only a string "name" is required, and "id" is taken
\* when it is a string.
LoadRecordingMetadata(file, c) ==
    IF c.kind # "json" THEN NoValue
    ELSE IF ~HasRecordingObject(c) THEN NoValue
    ELSE IF c.recording.v.name.t # "string" THEN NoValue
    ELSE Some(Metadata(IF c.recording.v.id.t = "string"
                         THEN c.recording.v.id.v ELSE "",
                       c.recording.v.name.v, file, "default"))

\* std::vector<RecordingMetadata> DiscoverRecordingFiles() const.  The
\* directory is iterated in an unspecified order, so the vector is taken as
\* the set of its entries.
DiscoverRecordingFiles(dir, dirExists) ==
    IF ~dirExists THEN {}
    ELSE { LoadRecordingMetadata(f, dir[f]).v :
             f \in { g \in RecFileNames :
                       /\ dir[g].kind \notin {"absent", "directory"}
                       /\ Extension(g) = ".wwrec"
                       /\ LoadRecordingMetadata(g, dir[g]).has } }

\* struct RecordingLoadResult, and an exception that leaves FromFile.
RecordingLoadFailed(error) ==
    [recording |-> NoValue, error |-> error, threw |-> FALSE]

RecordingLoaded(meta) ==
    [recording |-> Some(meta), error |-> "None", threw |-> FALSE]

RecordingLoadThrew == [recording |-> NoValue, error |-> "None", threw |-> TRUE]

RecordingFields == {"id", "name", "createdAt"}

\* static RecordingLoadResult RecordingMetadata::FromFile(wwrecFile): the
\* parse is inside try/catch, the get<std::string>() calls are not.
FromFile(file, c) ==
    IF c.kind = "absent" THEN RecordingLoadFailed("FileNotFound")
    ELSE IF c.kind # "json" THEN RecordingLoadFailed("FileMalformed")
    ELSE IF ~HasRecordingObject(c)
      THEN RecordingLoadFailed("MissingRecordingObject")
    ELSE IF \E k \in RecordingFields : c.recording.v[k].t = "missing"
      THEN RecordingLoadFailed("MissingRequiredField")
    ELSE IF c.recording.v.id.t # "string" \/ c.recording.v.name.t # "string"
      THEN RecordingLoadThrew
    ELSE RecordingLoaded(Metadata(c.recording.v.id.v, c.recording.v.name.v,
                                  file, "now"))

NoCall == [file |-> "", content |-> NoSuchFile,
           result |-> RecordingLoadFailed("None")]

\* The explorer panel scans the recordings directory.  The function returns
\* the entries alone: nothing tells its caller about a file it skipped.
DiscoverCall ==
    /\ discovered' = DiscoverRecordingFiles(recFiles, recDirExists)
    /\ signals' = {}
    /\ mlast' = "Discover"
    /\ UNCHANGED <<recFiles, recDirExists, fromFile>>
    /\ UNCHANGED <<ctlVars, sessVars, envVars, histVars, storeVars, solVars,
                   dirVars, launchVars, frameVars>>

\* A recording file is parsed on its own.
FromFileCall ==
    /\ \E f \in RecFileNames :
           fromFile' = [file |-> f, content |-> recFiles[f],
                        result |-> FromFile(f, recFiles[f])]
    /\ mlast' = "FromFile"
    /\ UNCHANGED <<recFiles, recDirExists, discovered, signals>>
    /\ UNCHANGED <<ctlVars, sessVars, envVars, histVars, storeVars, solVars,
                   dirVars, launchVars, frameVars>>

\* A file of the recordings directory is written, replaced or removed, or
\* the directory is made or removed; earlier results are forgotten.
RecordingsChange ==
    /\ \/ /\ recDirExists
          /\ \E f \in RecFileNames :
                 \E c \in ContentsOf(f) :
                     /\ c # recFiles[f]
                     /\ recFiles' = [recFiles EXCEPT ![f] = c]
          /\ UNCHANGED recDirExists
       \/ /\ recDirExists' = ~recDirExists
          /\ recFiles' = [f \in RecFileNames |-> NoSuchFile]
    /\ discovered' = {}
    /\ signals' = {}
    /\ fromFile' = NoCall
    /\ mlast' = "Change"
    /\ UNCHANGED <<ctlVars, sessVars, envVars, histVars, storeVars, solVars,
                   dirVars, launchVars, frameVars>>

\* A solution whose recordings directory does not exist yet.
InitRecordings ==
    /\ recFiles = [f \in RecFileNames |-> NoSuchFile]
    /\ recDirExists = FALSE
    /\ discovered = {}
    /\ signals = {}
    /\ fromFile = NoCall
    /\ mlast = "new"

NextRecordings ==
    \/ DiscoverCall
    \/ FromFileCall
    \/ RecordingsChange

(***************************************************************************)
(* BrowserLaunchOptions as the creation wizard and FromJson produce them.  *)
(***************************************************************************)
\* The text of the width and height fields, and wxAtoi of it.  The texts
\* give numbers that static_cast<uint32_t> keeps.
SizeTexts == {"800", ""}

wxAtoi(text) == IF text = "800" THEN 800 ELSE 0

UserAgentTexts == {"", "UA"}

\* The radio button that is selected.
WindowModes == {"maximised", "default", "custom"}

\* void WizardBehaviourPage::OnNextClickEvent(wxCommandEvent&)
OnNextClickEvent(chkPrivate, chkExtensions, chkNotifications, chkCertErrors, mode, width, height, userAgent) ==
    [ privateMode |-> chkPrivate,
      disableExtensions |-> chkExtensions,
      disableNotifications |-> chkNotifications,
      ignoreCertificateErrors |-> chkCertErrors,
      maximised |-> (mode = "maximised"),
      windowSize |-> IF mode = "maximised" THEN NoValue
                     ELSE IF mode = "default" THEN NoValue
                     ELSE Some([ width |-> wxAtoi(width),
                                 height |-> wxAtoi(height) ]),
      userAgent |-> IF userAgent # "" THEN Some(userAgent) ELSE NoValue ]

\* The JSON values handed to BrowserLaunchOptions::FromJson.
WindowSizeValues ==
    { Missing, JString("x"),
      JObject([width |-> JInteger(800), height |-> Missing]),
      JObject([width |-> JInteger(800), height |-> JInteger(600)]) }

LaunchObjects ==
    [ privateMode : {Missing, JBool(FALSE)},
      disableExtensions : {Missing, JBool(FALSE)},
      disableNotifications : {Missing},
      ignoreCertificateErrors : {Missing, JBool(TRUE)},
      maximised : {Missing, JBool(TRUE), JBool(FALSE), JString("yes")},
      userAgent : {Missing, JString("UA"), JInteger(5)},
      windowSize : WindowSizeValues ]

LaunchJsonInputs == {JString("x")} \cup {JObject(o) : o \in LaunchObjects}

\* j.value(key, default) for a bool member.
Value(o, key, default) == IF o[key].t = "missing" THEN default ELSE o[key].v

\* static BrowserLaunchOptions BrowserLaunchOptions::FromJson(const json& j):
\* every member is read on its own; value() raises type_error on a value
\* that is not a boolean.
LaunchOptionsFromJson(j) ==
    IF j.t # "object" THEN [threw |-> FALSE, opts |-> DefaultLaunchOptions]
    ELSE IF \E key \in {"privateMode", "disableExtensions",
                        "disableNotifications", "ignoreCertificateErrors",
                        "maximised"} :
                j.v[key].t \notin {"missing", "boolean"}
      THEN [threw |-> TRUE, opts |-> DefaultLaunchOptions]
    ELSE [ threw |-> FALSE,
           opts |->
             [ privateMode |->
                   Value(j.v, "privateMode", DefaultLaunchOptions.privateMode),
               disableExtensions |->
                   Value(j.v, "disableExtensions",
                         DefaultLaunchOptions.disableExtensions),
               disableNotifications |->
                   Value(j.v, "disableNotifications",
                         DefaultLaunchOptions.disableNotifications),
               ignoreCertificateErrors |->
                   Value(j.v, "ignoreCertificateErrors",
                         DefaultLaunchOptions.ignoreCertificateErrors),
               maximised |->
                   Value(j.v, "maximised", DefaultLaunchOptions.maximised),
               userAgent |-> IF j.v.userAgent.t = "string"
                               THEN Some(j.v.userAgent.v) ELSE NoValue,
               windowSize |->
                   IF j.v.windowSize.t = "object"
                        /\ j.v.windowSize.v.width.t # "missing"
                        /\ j.v.windowSize.v.height.t # "missing"
                     THEN Some([ width |-> j.v.windowSize.v.width.v,
                                 height |-> j.v.windowSize.v.height.v ])
                     ELSE NoValue ] ]

\* The user leaves the behaviour page of the wizard.
WizardNextStep ==
    /\ \E chkPrivate, chkExtensions, chkCertErrors \in BOOLEAN,
          mode \in WindowModes, width \in SizeTexts,
          userAgent \in UserAgentTexts :
           launchOptions' =
               [ threw |-> FALSE,
                 opts |-> OnNextClickEvent(chkPrivate, chkExtensions,
                                           TRUE, chkCertErrors, mode,
                                           width, "800", userAgent) ]
    /\ olast' = "Wizard"
    /\ UNCHANGED <<ctlVars, sessVars, envVars, histVars, storeVars, solVars,
                   dirVars, recVars, frameVars>>

\* Launch options are read from JSON.
LaunchFromJsonStep ==
    /\ \E j \in LaunchJsonInputs : launchOptions' = LaunchOptionsFromJson(j)
    /\ olast' = "FromJson"
    /\ UNCHANGED <<ctlVars, sessVars, envVars, histVars, storeVars, solVars,
                   dirVars, recVars, frameVars>>

\* BrowserLaunchOptions browserLaunchOptions;
InitLaunch ==
    /\ launchOptions = [threw |-> FALSE, opts |-> DefaultLaunchOptions]
    /\ olast = "new"

NextLaunch ==
    \/ WizardNextStep
    \/ LaunchFromJsonStep

(***************************************************************************)
(* StudioMainFrame: the handlers of the user's events, which drive the     *)
(* controller, the recording session, the recent-solutions list and the    *)
(* solution on disk.                                                       *)
(***************************************************************************)
\* The program runs: no exception has left a handler and nothing crashed.
\* The latest event was handled, or refused, or was an event recorded from
\* the browser.
Alive == flast \in {"handled", "refused", "recorded"}

\* The frame takes one more event.
Event ==
    /\ Alive
    /\ handled < MaxFrameEvents
    /\ handled' = handled + 1

\* void UpdateToolbarState(): the tools enabled in the current state.  The
\* tools for a new solution and for opening one are never disabled.
ToolEnabled(tool) ==
    CASE tool \in {"NewSolution", "OpenSolution"} -> TRUE
      [] tool = "SaveSolution" -> state_ \in {ProjectLoaded, Inspecting}
      [] tool = "CloseSolution" -> state_ \in {ProjectLoaded, Inspecting}
      [] tool = "InspectorMode" -> state_ \in {ProjectLoaded, Inspecting}
      [] tool = "StartStopRecord" ->
             state_ \in {ProjectLoaded, RecordingRunning, RecordingPaused}
      [] tool = "PauseRecord" ->
             state_ \in {RecordingRunning, RecordingPaused}
      [] OTHER -> FALSE

\* std::filesystem::path GetSolutionFilePath() const, as a numbered path.
GetSolutionFilePath(d) == IF d.createDirectoryForSolution THEN 1 ELSE 2

\* The solutions the frame is given: one name in a directory of its own.
FrameDescriptors == {d \in DirDescriptors : d.createDirectoryForSolution}

\* The files the open dialog offers.
SolutionFiles == {GetSolutionFilePath(d) : d \in FrameDescriptors}

\* What a solution file may hold when it is opened: the file may be gone,
\* may not be JSON, or may be a JSON document written by anyone.
SolutionFileContents ==
    {[kind |-> "absent"], [kind |-> "unparsable"],
     [kind |-> "json", j |-> NotAnObject]}
      \cup {[kind |-> "json", j |-> ToJson(d)] : d \in FrameDescriptors}
      \cup {[kind |-> "json",
             j |-> [ToJson(d) EXCEPT
                      !.solution.v.solutionDirectoryCreated = JString("yes")]] :
               d \in FrameDescriptors}

\* Whether the directories that are missing can be created.
CanCreateValues == {[i \in 1..4 |-> b] : b \in BOOLEAN}

\* The session's reference solution_ after the object it denotes was
\* destroyed (currentSolution_.reset()).
Reset(s) == IF s.has THEN Some([solution_ |-> "destroyed"]) ELSE s

\* currentSolution_ = std::move(...): an assignment to the object held, or
\* the construction of one when none is held; a reference to an object
\* destroyed earlier does not denote the new one.
Assigned(s) == IF currentSolution_.has THEN s ELSE Reset(s)

\* What no handler changes.
FrameRest ==
    UNCHANGED <<hist, onStateChanged_, rlast, addLog, fromEmpty, readds, calls,
                solVars, dlast, recVars, launchVars>>

SessionUnchanged == UNCHANGED <<sessVars, envVars, histVars>>

\* recordingSession_ = std::make_unique<RecordingSession>(currentSolution_.value())
NewSession ==
    /\ recordingSession_' = Some([solution_ |-> "current"])
    /\ active_' = FALSE
    /\ filePath_' = EmptyPath
    /\ recordingJson_' = JsonNull
    /\ nextIndex_' = 0
    /\ startTime_' = 0
    /\ UNCHANGED <<envVars, histVars>>

\* recentSolutions_.AddSolution(path); recentSolutions_.Save(): both write
\* the storage file, and both throw when its directory cannot be made.
\* The file, once its directory exists, can be opened for writing.
AddToRecent(path, dirOk) ==
    /\ recent_' = Inserted(recent_, path)
    /\ SaveFile(recent_', dirOk, TRUE)

\* bool SaveSolutionToDisk(const StudioSolution& solution): the disk it
\* leaves and its result.  The solution file itself is not kept.
SaveSolutionToDisk(d, canCreate, openOk) ==
    LET r == EnsureDirectoryStructure(fs, d, canCreate)
    IN  [fs |-> r.fs, ok |-> r.status = "None" /\ openOk]

\* void OnNewSolutionEvent(wxCommandEvent&): the wizard is cancelled, or
\* it is completed with descriptor d.
OnNewSolutionEvent(completed, d, canCreate, openOk, dirOk) ==
    IF ~completed
      THEN /\ NoStateChange
           /\ flast' = "handled"
           /\ SessionUnchanged
           /\ UNCHANGED <<currentSolution_, recordingSession_, inspectorShown,
                          recent_, storageFile, fs>>
      ELSE LET saved == SaveSolutionToDisk(d, canCreate, openOk)
           IN  /\ currentSolution_' = Some(d)
               /\ fs' = saved.fs
               /\ UNCHANGED inspectorShown
               /\ IF ~saved.ok
                    THEN /\ NoStateChange
                         /\ recordingSession_' = Reset(recordingSession_)
                         /\ flast' = "handled"
                         /\ SessionUnchanged
                         /\ UNCHANGED <<recent_, storageFile>>
                    ELSE /\ OnProjectLoaded
                         /\ AddToRecent(GetSolutionFilePath(d), dirOk)
                         /\ IF ~dirOk
                              THEN /\ recordingSession_' =
                                          Reset(recordingSession_)
                                   /\ flast' = "threw"
                                   /\ SessionUnchanged
                              ELSE /\ NewSession
                                   /\ flast' = "handled"

\* void OnCloseSolutionEvent(wxCommandEvent&)
OnCloseSolutionEvent ==
    /\ currentSolution_' = NoValue
    /\ recordingSession_' = Reset(recordingSession_)
    /\ OnSolutionClosed
    /\ flast' = "handled"
    /\ SessionUnchanged
    /\ UNCHANGED <<inspectorShown, recent_, storageFile, fs>>

\* What OpenSolution returns for a file of content c ("threw" when an
\* exception leaves it), and what it does to the object held by
\* currentSolution_.
OpenSolutionResult(c, canCreate, dirOk) ==
    IF c.kind # "json" THEN [ret |-> "false", change |-> "none"]
    ELSE IF FromJson(c.j).threw THEN [ret |-> "threw", change |-> "none"]
    ELSE IF ~FromJson(c.j).solution.has
      THEN [ret |-> "false", change |-> "none"]
    ELSE IF EnsureDirectoryStructure(fs, FromJson(c.j).solution.v,
                                     canCreate).status # "None"
      THEN [ret |-> "false", change |-> "reset"]
    ELSE [ret |-> IF dirOk THEN "true" ELSE "threw", change |-> "assigned"]

\* bool OpenSolution(const std::filesystem::path& solutionFile), with the
\* content c of the file.
OpenSolution(solutionFile, c, canCreate, dirOk) ==
    LET result == FromJson(c.j)
        ensured == EnsureDirectoryStructure(fs, result.solution.v, canCreate)
        change == OpenSolutionResult(c, canCreate, dirOk).change
    IN  IF change = "none"
          THEN /\ NoStateChange
               /\ UNCHANGED <<currentSolution_, recent_, storageFile, fs>>
        ELSE IF change = "reset"
          THEN /\ currentSolution_' = NoValue
               /\ fs' = ensured.fs
               /\ NoStateChange
               /\ UNCHANGED <<recent_, storageFile>>
        ELSE /\ currentSolution_' = result.solution
             /\ fs' = ensured.fs
             /\ OnProjectLoaded
             /\ AddToRecent(solutionFile, dirOk)

\* The session's reference after OpenSolution.
After(change, s) ==
    CASE change = "reset" -> Reset(s)
      [] change = "assigned" -> Assigned(s)
      [] OTHER -> s

Outcome(ret) == IF ret = "threw" THEN "threw" ELSE "handled"

\* void OnOpenSolutionEvent(wxCommandEvent&): the dialog is cancelled, or a
\* file is chosen.  The second OnSolutionLoaded finds the state set.
OnOpenSolutionEvent(chosen, solutionFile, c, canCreate, dirOk) ==
    IF ~chosen
      THEN /\ NoStateChange
           /\ flast' = "handled"
           /\ SessionUnchanged
           /\ UNCHANGED <<currentSolution_, recordingSession_, inspectorShown,
                          recent_, storageFile, fs>>
      ELSE LET r == OpenSolutionResult(c, canCreate, dirOk)
           IN  /\ OpenSolution(solutionFile, c, canCreate, dirOk)
               /\ flast' = Outcome(r.ret)
               /\ UNCHANGED inspectorShown
               /\ IF r.ret = "true"
                    THEN NewSession
                    ELSE /\ recordingSession_' =
                                After(r.change, recordingSession_)
                         /\ SessionUnchanged

\* void OnOpenRecentSolutionEvent(wxCommandEvent&): entry index of the menu.
OnOpenRecentSolutionEvent(index, c, canCreate, dirOk) ==
    LET r == OpenSolutionResult(c, canCreate, dirOk)
    IN  /\ OpenSolution(recent_[index], c, canCreate, dirOk)
        /\ flast' = Outcome(r.ret)
        /\ recordingSession_' = After(r.change, recordingSession_)
        /\ SessionUnchanged
        /\ UNCHANGED inspectorShown

\* recordingSession_->Start(currentSolution_->GenerateNextRecordingName()).
\* Without a session the call dereferences a null pointer; without a
\* current solution, or with a session whose solution was destroyed, it
\* reads an object that is gone, and either crashes or goes on.
StartFromFrame ==
    \/ /\ IF recordingSession_.has /\ currentSolution_.has
            THEN recordingSession_.v.solution_ = "destroyed"
            ELSE TRUE
       /\ flast' = "crashed"
       /\ SessionUnchanged
    \/ /\ recordingSession_.has
       /\ \E name \in Names : Start(name)
       /\ flast' = Outcome(last'.ret)

\* recordingSession_->Stop(); RefreshRecordings(currentSolution_.value()):
\* value() throws when no solution is held.
StopFromFrame ==
    IF ~recordingSession_.has
      THEN /\ flast' = "crashed"
           /\ SessionUnchanged
      ELSE /\ Stop
           /\ flast' = IF currentSolution_.has THEN "handled"
                                    ELSE "threw"

\* void OnRecordStartStopEvent(wxCommandEvent&)
OnRecordStartStopEvent ==
    /\ OnRecordStartStop
    /\ IF state_' = RecordingRunning THEN StartFromFrame
       ELSE IF state_' = ProjectLoaded THEN StopFromFrame
       ELSE /\ flast' = "handled"
            /\ SessionUnchanged
    /\ UNCHANGED <<currentSolution_, recordingSession_, inspectorShown,
                   recent_, storageFile, fs>>

\* Faulty variant: pausing stops the session.
OnRecordPauseEvent_StopsSession ==
    /\ OnRecordPause
    /\ Stop
    /\ flast' = "handled"
    /\ UNCHANGED <<currentSolution_, recordingSession_, inspectorShown,
                   recent_, storageFile, fs>>

\* void OnRecordPauseEvent(wxCommandEvent&)
OnRecordPauseEvent ==
    /\ OnRecordPause
    /\ flast' = "handled"
    /\ SessionUnchanged
    /\ UNCHANGED <<currentSolution_, recordingSession_, inspectorShown,
                   recent_, storageFile, fs>>

\* void OnInspectorEvent(wxCommandEvent&)
OnInspectorEvent ==
    LET show == ~inspectorShown
    IN  /\ inspectorShown' = show
        /\ OnInspectorToggle(show)
        /\ flast' = "handled"
        /\ SessionUnchanged
        /\ UNCHANGED <<currentSolution_, recordingSession_, recent_,
                       storageFile, fs>>

\* Faulty variant: a recording is deleted whatever the state is.
OnDeleteRecording_NoStateCheck(path, confirmed, removeOk) ==
    /\ flast' = "handled"
    /\ files' = IF currentSolution_.has /\ confirmed /\ removeOk
                  THEN [files EXCEPT ![path] = NoFile]
                  ELSE files
    /\ NoStateChange
    /\ UNCHANGED <<sessVars, clock, histVars, frameState, recent_,
                   storageFile, fs>>

\* void OnDeleteRecording(wxCommandEvent& evt), for the recording at path.
OnDeleteRecording(path, confirmed, removeOk) ==
    IF state_ = RecordingRunning \/ state_ = RecordingPaused
      THEN /\ flast' = "refused"
           /\ NoStateChange
           /\ UNCHANGED <<sessVars, envVars, histVars, frameState, recent_,
                          storageFile, fs>>
      ELSE OnDeleteRecording_NoStateCheck(path, confirmed, removeOk)

\* The names typed into the rename dialog.
NewNames == {"", "Renamed"}

\* bool RecordingMetadata::UpdateRecordingName(): the file is loaded, the
\* name in its recording object replaced and the file rewritten; a file
\* that cannot be read or written is left as it was.
UpdateRecordingName(f, path, newName, ioOk) ==
    IF ioOk /\ f[path].kind = "object"
      THEN [f EXCEPT ![path].recording.name = newName]
      ELSE f

\* void OnRenameRecording(wxCommandEvent& evt).  selected is the recording
\* selected in the explorer, if any; the handler reads it without checking
\* for one, and reads the current solution without checking for one.
OnRenameRecording(selected, accepted, newName, ioOk) ==
    IF state_ = RecordingRunning \/ state_ = RecordingPaused
      THEN /\ flast' = "refused"
           /\ NoStateChange
           /\ UNCHANGED <<sessVars, envVars, histVars, frameState, recent_,
                          storageFile, fs>>
      ELSE /\ NoStateChange
           /\ UNCHANGED <<sessVars, clock, histVars, frameState, recent_,
                          storageFile, fs>>
           /\ IF ~selected.has
                THEN /\ flast' = "crashed"
                     /\ UNCHANGED files
              ELSE IF ~accepted \/ newName = ""
                THEN /\ flast' = "handled"
                     /\ UNCHANGED files
              ELSE /\ files' = UpdateRecordingName(files, selected.v,
                                                   newName, ioOk)
                   /\ \E survived \in BOOLEAN :
                        flast' = IF files' = files \/ currentSolution_.has
                                          \/ survived
                                       THEN "handled" ELSE "crashed"

(***************************************************************************)
(* The events as steps of the model.                                       *)
(***************************************************************************)
\* StudioMainFrame(wxWindow*) and InitAui(): the recent list is loaded
\* from the storage file; the controller starts with the frame's callback.
FrameConstructor ==
    /\ flast = "none"
    /\ Load
    /\ UNCHANGED handled
    /\ flast' = IF rlast'.ret = "threw" THEN "threw" ELSE "handled"
    /\ UNCHANGED <<ctlVars, sessVars, envVars, histVars, storageFile, solVars,
                   dirVars, recVars, launchVars, frameState>>

\* The storage file as earlier runs of the program, or anyone, left it.
EarlierContents ==
    {UnparsableFile} \cup {SavedDocument(<<p>>) : p \in SolutionFiles}

EarlierRuns ==
    /\ flast = "none"
    /\ storageFile = AbsentFile
    /\ \E c \in EarlierContents : storageFile' = c
    /\ UNCHANGED <<ctlVars, sessVars, envVars, histVars, recent_, rlast,
                   addLog, fromEmpty, readds, calls, solVars, dirVars,
                   recVars, launchVars, frameVars>>

NewSolutionEvent ==
    /\ Event /\ ToolEnabled("NewSolution")
    /\ \/ \E d \in FrameDescriptors :
             OnNewSolutionEvent(FALSE, d, [i \in 1..4 |-> TRUE], TRUE, TRUE)
       \/ \E d \in FrameDescriptors, canCreate \in CanCreateValues,
             openOk, dirOk \in BOOLEAN :
             OnNewSolutionEvent(TRUE, d, canCreate, openOk, dirOk)
    /\ FrameRest

CloseSolutionEvent ==
    /\ Event /\ ToolEnabled("CloseSolution")
    /\ OnCloseSolutionEvent
    /\ FrameRest

OpenSolutionEvent ==
    /\ Event /\ ToolEnabled("OpenSolution")
    /\ \E solutionFile \in SolutionFiles, c \in SolutionFileContents :
         \/ OnOpenSolutionEvent(FALSE, solutionFile, c,
                                [i \in 1..4 |-> TRUE], TRUE)
         \/ \E canCreate \in CanCreateValues, dirOk \in BOOLEAN :
              OnOpenSolutionEvent(TRUE, solutionFile, c, canCreate, dirOk)
    /\ FrameRest

OpenRecentSolutionEvent ==
    /\ Event
    /\ \E index \in 1..Len(recent_), c \in SolutionFileContents,
          canCreate \in CanCreateValues, dirOk \in BOOLEAN :
         OnOpenRecentSolutionEvent(index, c, canCreate, dirOk)
    /\ FrameRest

RecordStartStopEvent ==
    /\ Event /\ ToolEnabled("StartStopRecord")
    /\ OnRecordStartStopEvent
    /\ FrameRest

RecordPauseEvent ==
    /\ Event /\ ToolEnabled("PauseRecord")
    /\ OnRecordPauseEvent
    /\ FrameRest

InspectorEvent ==
    /\ Event /\ ToolEnabled("InspectorMode")
    /\ OnInspectorEvent
    /\ FrameRest

DeleteRecordingEvent ==
    /\ Event
    /\ \E path \in AllPaths, confirmed, removeOk \in BOOLEAN :
         OnDeleteRecording(path, confirmed, removeOk)
    /\ FrameRest

RenameRecordingEvent ==
    /\ Event
    /\ \E selected \in {NoValue} \cup {Some(p) : p \in AllPaths},
          accepted, ioOk \in BOOLEAN, newName \in NewNames :
         OnRenameRecording(selected, accepted, newName, ioOk)
    /\ FrameRest

\* An event of the recorded browser reaches the session.
RecordedEvent ==
    /\ Event
    /\ recordingSession_.has
    /\ \E type \in InputTypes, payload \in Payloads : AppendEvent(type, payload)
    /\ flast' = "recorded"
    /\ NoStateChange
    /\ UNCHANGED <<frameState, recent_, storageFile, fs>>
    /\ FrameRest

\* Before the frame is constructed.
InitFrame ==
    /\ currentSolution_ = NoValue
    /\ recordingSession_ = NoValue
    /\ inspectorShown = FALSE
    /\ flast = "none"
    /\ handled = 0

NextFrame ==
    \/ EarlierRuns
    \/ FrameConstructor
    \/ NewSolutionEvent
    \/ CloseSolutionEvent
    \/ OpenSolutionEvent
    \/ OpenRecentSolutionEvent
    \/ RecordStartStopEvent
    \/ RecordPauseEvent
    \/ InspectorEvent
    \/ DeleteRecordingEvent
    \/ RenameRecordingEvent
    \/ RecordedEvent

InitAux ==
    /\ InitStore /\ InitSolution /\ InitDirs /\ InitRecordings
    /\ InitLaunch /\ InitFrame

Init == InitController /\ InitSession /\ InitAux

\* The controller driven by its intents.
SpecController == Init /\ [][NextController]_vars

\* The frame always registers an observer.
InitObserved == Init /\ onStateChanged_ = TRUE

\* The recording session driven by its public member functions.
SpecSession == InitObserved /\ [][NextSession]_vars

\* The recent-solutions store driven by its public member functions.
SpecStore == Init /\ [][NextStore]_vars

\* Solution descriptors written to JSON and read back, and solution files of
\* any content read.
SpecSolution == Init /\ [][NextSolution]_vars

\* The directories of solutions made on a disk that other programs change.
SpecDirs == Init /\ [][NextDirs]_vars

\* Recording files discovered and parsed in a directory that changes.
SpecRecordings == Init /\ [][NextRecordings]_vars

\* Launch options produced by the wizard and by FromJson.
SpecLaunch == Init /\ [][NextLaunch]_vars

\* The frame driven by the events of its user.
SpecFrame == InitObserved /\ [][NextFrame]_vars

\* A list built from empty by AddSolution alone.
SpecAdds == Init /\ [][NextAdds]_vars

(***************************************************************************)
(* Properties of the lifecycle state controller.                           *)
(***************************************************************************)
HistIdx == 1..Len(hist)

\* The state the transition table gives for RecordStartStop.
StartStopTable(s) ==
    IF s = ProjectLoaded THEN RecordingRunning
    ELSE IF s \in {RecordingRunning, RecordingPaused} THEN ProjectLoaded
    ELSE s

\* C1: RecordStartStop moves SolutionLoaded to RecordingRunning, moves
\* RecordingRunning and RecordingPaused to SolutionLoaded, and leaves the
\* state unchanged in NoSolution and Inspecting.
C1_RecordStartStop ==
    \A i \in HistIdx :
        hist[i].intent = "RecordStartStop"
            => hist[i].post = StartStopTable(hist[i].pre)

\* C1 witness: a paused recording was stopped, and the intent was also
\* issued while Inspecting.
C1_Witness ==
    /\ \E i \in HistIdx : /\ hist[i].intent = "RecordStartStop"
                          /\ hist[i].pre = RecordingPaused
                          /\ hist[i].post = ProjectLoaded
    /\ \E i \in HistIdx : /\ hist[i].intent = "RecordStartStop"
                          /\ hist[i].pre = Inspecting

\* The state the transition table gives for RecordPause.
PauseTable(s) ==
    IF s = RecordingRunning THEN RecordingPaused
    ELSE IF s = RecordingPaused THEN RecordingRunning
    ELSE s

\* C2: RecordPause is a toggle between RecordingRunning and RecordingPaused
\* and a no-op elsewhere; RecordStartStop from SolutionLoaded, then any
\* number of RecordPause, then RecordStartStop ends in SolutionLoaded.
C2_PauseToggle ==
    /\ \A i \in HistIdx :
          hist[i].intent = "RecordPause" => hist[i].post = PauseTable(hist[i].pre)
    /\ \A i, j \in HistIdx :
          ( /\ i < j
            /\ hist[i].intent = "RecordStartStop"
            /\ hist[i].pre = ProjectLoaded
            /\ hist[j].intent = "RecordStartStop"
            /\ \A m \in (i + 1)..(j - 1) : hist[m].intent = "RecordPause" )
          => hist[j].post = ProjectLoaded

\* C2 witness: RecordStartStop, RecordPause, RecordPause, RecordStartStop
\* were issued from SolutionLoaded.
C2_Witness ==
    \E i \in HistIdx :
        /\ i + 3 \in HistIdx
        /\ hist[i].intent = "RecordStartStop"
        /\ hist[i].pre = ProjectLoaded
        /\ hist[i + 1].intent = "RecordPause"
        /\ hist[i + 1].post = RecordingPaused
        /\ hist[i + 2].intent = "RecordPause"
        /\ hist[i + 2].post = RecordingRunning
        /\ hist[i + 3].intent = "RecordStartStop"
        /\ hist[i + 3].post = ProjectLoaded

\* C3 (as claimed): InspectorToggle changes the state only along
\* SolutionLoaded -> Inspecting (shown) and Inspecting -> SolutionLoaded
\* (not shown), and is a no-op in every other combination.
C3_InspectorToggleAsClaimed ==
    \A i \in HistIdx :
        hist[i].intent = "InspectorToggle"
            => hist[i].post =
                 IF hist[i].pre = ProjectLoaded /\ hist[i].shown THEN Inspecting
                 ELSE IF hist[i].pre = Inspecting /\ ~hist[i].shown THEN ProjectLoaded
                 ELSE hist[i].pre

\* C4 (as claimed): the SolutionLoaded intent changes the state only from
\* NoSolution; in every other state it is a no-op.
C4_SolutionLoadedAsClaimed ==
    \A i \in HistIdx :
        hist[i].intent = "SolutionLoaded"
            => hist[i].post =
                 IF hist[i].pre = NoProject THEN ProjectLoaded ELSE hist[i].pre

\* C5: with an observer registered, every intent that changes the state
\* makes exactly one call of the observer, with the new state as argument
\* and with the state already updated; an intent that leaves the state
\* unchanged makes no call.
C5_NotifyOncePerChange ==
    onStateChanged_ =>
        \A i \in HistIdx :
            hist[i].calls =
                IF hist[i].pre # hist[i].post
                  THEN <<[arg |-> hist[i].post, seen |-> hist[i].post]>>
                  ELSE <<>>

\* C5 witness: an observer is registered, one intent changed the state and
\* another left it unchanged.
C5_Witness ==
    /\ onStateChanged_
    /\ \E i \in HistIdx : hist[i].pre # hist[i].post /\ Len(hist[i].calls) = 1
    /\ \E i \in HistIdx : hist[i].pre = hist[i].post /\ hist[i].calls = <<>>

(***************************************************************************)
(* Properties of the recording session.                                    *)
(***************************************************************************)

\* The document stored at the session's file path.
PersistedFile == IF filePath_ \in AllPaths THEN files[filePath_] ELSE NoFile

\* The index values of a sequence of events are 0, 1, ... in order.
IndexedFromZero(events) ==
    \A i \in 1..Len(events) : events[i].index = i - 1

\* C6: Start called while the session is Active returns false and leaves
\* the file path, the document, the next index, the Active flag and every
\* file unchanged.
C6_StartWhileActive ==
    [][ (active_ /\ last'.op = "Start")
          => /\ last'.ret = "false"
             /\ active_'
             /\ UNCHANGED <<filePath_, recordingJson_, nextIndex_, files>> ]_vars

\* C6 witness: Start was refused on an active session that holds events.
C6_Witness ==
    /\ last.op = "Start"
    /\ last.wasActive
    /\ last.ret = "false"
    /\ active_
    /\ nextIndex_ > 0
    /\ PersistedFile # NoFile

\* C7 (as claimed): after the Stop that ends a recording with N accepted
\* AppendEvent calls, the persisted file has an events array of exactly N
\* entries with index values 0..N-1 in order.
C7_PersistedEventsAsClaimed ==
    (last.op = "Stop" /\ last.wasActive)
        => /\ HasEvents(PersistedFile)
           /\ Len(EventsOf(PersistedFile)) = appended
           /\ IndexedFromZero(EventsOf(PersistedFile))

\* C8 (as claimed): right after a successful Start the recording file
\* exists, has version 1 and a recording object whose events field is an
\* empty array.
C8_InitialFileAsClaimed ==
    (last.op = "Start" /\ last.ret = "true")
        => /\ PersistedFile # NoFile
           /\ PersistedFile.version = 1
           /\ HasEvents(PersistedFile)
           /\ PersistedFile.recording.events = <<>>

\* C9: AppendEvent on a session that is not Active changes neither the
\* document, the next index, the session's other fields nor any file, and
\* a successful Start leaves the next index at 0.
C9_AppendWhileInactive ==
    [][ /\ (~active_ /\ last'.op = "AppendEvent")
            => UNCHANGED <<sessVars, files>>
        /\ (last'.op = "Start" /\ last'.ret = "true")
            => nextIndex_' = 0 ]_vars

\* C9 witness: AppendEvent was called on a stopped session whose last
\* recording holds events.
C9_Witness ==
    /\ last.op = "AppendEvent"
    /\ ~last.wasActive
    /\ ~active_
    /\ nextIndex_ > 0
    /\ PersistedFile # NoFile

C12_StartFailureAsClaimed ==
    (last.op = "Start" /\ ~last.wasActive /\ ~last.opened)
        => /\ last.ret = "false"
           /\ ~active_

NoDuplicates(list) ==
    \A i, k \in 1..Len(list) : list[i] = list[k] => i = k

\* C14 (as claimed): whatever Load, AddSolution and Save calls were made and
\* whatever the file held at Load, the list has no duplicate and at most
\* kMaxRecent entries.
C14_ListBoundedDistinctAsClaimed ==
    /\ NoDuplicates(recent_)
    /\ Len(recent_) <= kMaxRecent

\* The position in the log of the last AddSolution call that named path.
LastAdd(log, path) ==
    CHOOSE i \in 1..Len(log) :
        /\ log[i] = path
        /\ \A k \in (i + 1)..Len(log) : log[k] # path

NoWellFormedList(f) ==
    \/ f.kind # "object"
    \/ ~f.hasList
    \/ f.recentSolutions.t # "array"
    \/ NotAString \in Range(f.recentSolutions.items)

\* C16 (as claimed): Load of an absent file, of text that is not JSON, or
\* of a document without a well-formed "recentSolutions" array completes
\* normally and leaves the list empty.
C16_LoadNeverFailsAsClaimed ==
    (rlast.op = "Load" /\ NoWellFormedList(rlast.file))
        => /\ rlast.ret = "void"
           /\ recent_ = <<>>

\* C17 (as claimed): a descriptor written by ToJson and read back by
\* FromJson comes back with error None and equal in every field, the
\* browser launch options included.
C17_RoundTripAsClaimed ==
    (jlast = "FromJson" /\ solution.has)
        => /\ ~loadResult.threw
           /\ loadResult.error = "None"
           /\ loadResult.solution = Some(solution.v)

\* The defects of a solution document, by class.
StructuralDefect(j) ==
    \/ ~j.isObject
    \/ j.version.t \notin {"missing", "integer"}
    \/ j.solution.t \notin {"missing", "object"}
    \/ /\ j.solution.t = "object"
       /\ \E f \in RequiredFields :
              j.solution.v[f].t \notin {"missing", FieldType(f)}

PresenceDefect(j) ==
    /\ j.isObject
    /\ \/ j.version.t = "missing"
       \/ j.solution.t = "missing"
       \/ /\ j.solution.t = "object"
          /\ \E f \in RequiredFields : j.solution.v[f].t = "missing"

SemanticDefect(j) ==
    /\ j.isObject
    /\ j.version.t = "integer"
    /\ j.version.v # JSON_VERSION

Invalid(j) == StructuralDefect(j) \/ PresenceDefect(j) \/ SemanticDefect(j)

EarliestClass(j) ==
    IF StructuralDefect(j) THEN "structural"
    ELSE IF PresenceDefect(j) THEN "presence"
    ELSE "semantic"

ErrorClass(error) ==
    IF error = "FileMalformed" THEN "structural"
    ELSE IF error = "UnsupportedVersion" THEN "semantic"
    ELSE IF error = "None" THEN "none"
    ELSE "presence"

\* C18 (as claimed): whenever FromJson returns for an invalid document, it
\* returns no descriptor and one error, of the earliest class of defect the
\* document has in the order structural, presence, semantic.
C18_PrecedenceAsClaimed ==
    (jlast = "FromJson" /\ Invalid(rawJSON) /\ ~loadResult.threw)
        => /\ ~loadResult.solution.has
           /\ ErrorClass(loadResult.error) = EarliestClass(rawJSON)

\* C19 (as claimed): FromJson never raises an exception, returns a
\* descriptor exactly when the error is None, and returns FileMalformed
\* for a version 1 document whose required fields are all present and one
\* of them has the wrong type.
C19_TotalAsClaimed ==
    jlast = "FromJson"
        => /\ ~loadResult.threw
           /\ loadResult.solution.has <=> loadResult.error = "None"
           /\ ( /\ rawJSON.isObject
                /\ rawJSON.version = JInteger(JSON_VERSION)
                /\ rawJSON.solution.t = "object"
                /\ \A f \in RequiredFields :
                       rawJSON.solution.v[f].t # "missing"
                /\ \E f \in RequiredFields :
                       rawJSON.solution.v[f].t # FieldType(f) )
                  => loadResult.error = "FileMalformed"

\* C20: when a call of EnsureDirectoryStructure has returned None, a second
\* call on the same descriptor made next returns None too, leaves nothing on
\* disk changed, and the four directories of the solution exist.
C20_EnsureIdempotent ==
    [][ ( /\ dlast.op = "Ensure"
          /\ dlast.status = "None"
          /\ dlast'.op = "Ensure"
          /\ dlast'.d = dlast.d )
          => /\ dlast'.status = "None"
             /\ fs' = fs
             /\ \A path \in Layout(dlast.d.v) : fs'[path] = "dir" ]_vars

\* C20 witness: a second call in a row returned None on a disk that holds
\* an earlier recording.
C20_Witness ==
    /\ dlast.op = "Ensure"
    /\ dlast.again
    /\ dlast.status = "None"
    /\ fs[OldRecording(dlast.d.v)] = "file"
    /\ \A path \in Layout(dlast.d.v) : fs[path] = "dir"

\* The four directories in the order EnsureDirectoryStructure makes them,
\* and the status that names each.
LayoutOrder(d) ==
    << GetSolutionDirectory(d), GetPagesDirectory(d), GetScriptsDirectory(d),
       GetRecordingsDirectory(d) >>

FailureStatus ==
    << "CannotCreateRoot", "CannotCreatePages", "CannotCreateScripts",
       "CannotCreateRecordings" >>

\* C21: EnsureDirectoryStructure returns None only when all four directories
\* exist; otherwise its status names the first directory, in the order root,
\* pages, scripts, recordings, that does not exist afterwards, and the
\* directories after that one are left as they were.
C21_FirstFailureReported ==
    [][ dlast'.op = "Ensure"
          => LET order == LayoutOrder(dlast'.d.v)
             IN  IF dlast'.status = "None"
                   THEN \A i \in 1..4 : fs'[order[i]] = "dir"
                   ELSE \E i \in 1..4 :
                            /\ dlast'.status = FailureStatus[i]
                            /\ fs'[order[i]] # "dir"
                            /\ \A k \in 1..(i - 1) : fs'[order[k]] = "dir"
                            /\ \A k \in (i + 1)..4 :
                                   fs'[order[k]] = fs[order[k]] ]_vars

\* C21 witness: the scripts directory could not be created; root and pages
\* exist and the recordings directory was not made.
C21_Witness ==
    /\ dlast.op = "Ensure"
    /\ dlast.status = "CannotCreateScripts"
    /\ fs[GetSolutionDirectory(dlast.d.v)] = "dir"
    /\ fs[GetPagesDirectory(dlast.d.v)] = "dir"
    /\ fs[GetScriptsDirectory(dlast.d.v)] = "absent"
    /\ fs[GetRecordingsDirectory(dlast.d.v)] = "absent"

\* The recording files of the directory, and those that are well-formed:
\* JSON with a recording object holding string id and name and a createdAt.
RecordingFilesIn(dir) ==
    { f \in RecFileNames : /\ Extension(f) = ".wwrec"
                           /\ dir[f].kind \notin {"absent", "directory"} }

WellFormed(c) ==
    /\ c.kind = "json"
    /\ HasRecordingObject(c)
    /\ c.recording.v.id.t = "string"
    /\ c.recording.v.name.t = "string"
    /\ c.recording.v.createdAt.t # "missing"

\* C22 (as claimed): discovery returns one entry for each well-formed
\* recording file whatever corrupt files sit beside it, and tells its caller
\* of each corrupt file.
C22_DiscoveryAsClaimed ==
    mlast = "Discover"
        => /\ {m.filePath : m \in discovered}
                = {f \in RecordingFilesIn(recFiles) : WellFormed(recFiles[f])}
           /\ signals
                = {f \in RecordingFilesIn(recFiles) : ~WellFormed(recFiles[f])}

\* C23 (as claimed): FromFile returns metadata with error None exactly when
\* the file exists, parses as JSON and has a recording object containing id,
\* name and createdAt; otherwise it returns no metadata and the first
\* applicable error of FileNotFound, FileMalformed, MissingRecordingObject,
\* MissingRequiredField; it never returns both.
C23_FromFileAsClaimed ==
    mlast = "FromFile"
        => LET c == fromFile.content
               r == fromFile.result
               expected ==
                   IF c.kind = "absent" THEN "FileNotFound"
                   ELSE IF c.kind # "json" THEN "FileMalformed"
                   ELSE IF ~HasRecordingObject(c)
                     THEN "MissingRecordingObject"
                   ELSE IF \E k \in RecordingFields :
                               c.recording.v[k].t = "missing"
                     THEN "MissingRequiredField"
                   ELSE "None"
           IN  /\ ~r.threw
               /\ r.error = expected
               /\ r.recording.has <=> r.error = "None"

\* C28 (as claimed): discovery has an entry for a recording file exactly when
\* FromFile returns error None for that file, and then both give the same id
\* and name.
C28_ParsersAgreeAsClaimed ==
    ( /\ fromFile.file # ""
      /\ Extension(fromFile.file) = ".wwrec"
      /\ discovered = DiscoverRecordingFiles(recFiles, recDirExists) )
        => /\ (\E m \in discovered : m.filePath = fromFile.file)
                <=> (~fromFile.result.threw /\ fromFile.result.error = "None")
           /\ \A m \in discovered :
                  (m.filePath = fromFile.file /\ fromFile.result.recording.has)
                      => /\ m.id = fromFile.result.recording.v.id
                         /\ m.name = fromFile.result.recording.v.name

\* C24 (as claimed): every launch-options value produced by the wizard or by
\* FromJson has a windowSize only when maximised is false.
C24_OneWindowModeAsClaimed ==
    (olast \in {"Wizard", "FromJson"} /\ ~launchOptions.threw)
        => ~(launchOptions.opts.maximised /\ launchOptions.opts.windowSize.has)

(***************************************************************************)
(* Properties of the frame.                                                *)
(***************************************************************************)
Recording == state_ = RecordingRunning \/ state_ = RecordingPaused

\* C25: after every event the frame handled, the recording session is
\* active exactly when the state is RecordingRunning or RecordingPaused.
C25_SessionFollowsStateAsClaimed == Alive => (active_ <=> Recording)

\* C26: whenever the state is SolutionLoaded, so that RecordStartStop
\* starts a recording, a recording session exists and its solution is the
\* one currently open.
C26_SessionBoundAsClaimed ==
    (Alive /\ state_ = ProjectLoaded) =>
        /\ currentSolution_.has
        /\ recordingSession_ = Some([solution_ |-> "current"])

\* C27: after every event the frame handled, the state is NoSolution
\* exactly when the frame holds no current solution.
C27_NoSolutionAsClaimed ==
    Alive => (state_ = NoProject <=> ~currentSolution_.has)

\* A step that pauses or resumes.
PauseStep ==
    \/ state_ = RecordingRunning /\ state_' = RecordingPaused
    \/ state_ = RecordingPaused /\ state_' = RecordingRunning

\* C29: pausing and resuming change the lifecycle state and nothing of the
\* session: its active flag, file path, document, next index and start
\* time, and the files on disk, stay as they are; an event that reaches an
\* active session while the state is RecordingPaused is appended to the
\* document with the next index.
C29_PauseLeavesSession ==
    [][ /\ PauseStep => UNCHANGED <<sessVars, files>>
        /\ (flast' = "recorded" /\ state_ = RecordingPaused /\ active_)
             => /\ nextIndex_' = nextIndex_ + 1
                /\ EventsOf(recordingJson_') =
                     Append(EventsOf(recordingJson_),
                            EventsOf(recordingJson_')[nextIndex_'])
                /\ EventsOf(recordingJson_')[nextIndex_'].index = nextIndex_
      ]_vars

\* C29 witness: a recording was started and paused, and an event that
\* arrived during the pause is in the document.
C29_Witness ==
    /\ flast = "recorded"
    /\ state_ = RecordingPaused
    /\ active_
    /\ last.op = "AppendEvent"
    /\ last.wasActive
    /\ nextIndex_ = Len(EventsOf(recordingJson_))
    /\ nextIndex_ > 0

\* C30: while the state is RecordingRunning or RecordingPaused a request to
\* delete or to rename a recording is refused, and no file is changed.
C30_RefusedWhileRecording ==
    [][ (Recording /\ (DeleteRecordingEvent \/ RenameRecordingEvent))
          => /\ flast' = "refused"
             /\ UNCHANGED <<files, fs, storageFile, sessVars, state_>> ]_vars

\* C30 witness: a request was refused during a recording whose file exists.
C30_Witness ==
    /\ flast = "refused"
    /\ Recording
    /\ active_
    /\ files[filePath_] # NoFile

====
